---- MODULE Spec2Model ----
(***************************************************************************)
(* A model of the in-memory cache (CacheManager) and of the NOAA client    *)
(* that fetches through it (NoaaClient.fetchEndpoint).                     *)
(*                                                                         *)
(* The store is a JavaScript Map: a sequence of <key, entry> pairs kept in *)
(* insertion order.  Time is the value of Date.now() in milliseconds.  A   *)
(* fetchEndpoint call is a process that is suspended at `await fetch(url)` *)
(* and at `await response.json()`; everything between two suspensions is   *)
(* one atomic step, as on the single-threaded runtime.                     *)
(***************************************************************************)
EXTENDS Integers, Sequences, FiniteSets, TLC

VARIABLES
    memoryCache,  \* CacheManager.memoryCache: <<[key, entry]>> in insertion order
    config,       \* CacheManager.config: [ttlSeconds, maxEntries]
    now,          \* Date.now(), in milliseconds
    calls,        \* the fetchEndpoint calls: idle, or suspended in an await
    ret,          \* the operation of the last step, with what it returned
    written,      \* history: per key, the entry last written by set and not
                  \* invalidated or evicted since (lazy deletion by get keeps it)
    inserted,     \* history: the keys set by a run of sequential inserts, in order
    clearedSince, \* history: clearCache() has run and no fetchEndpoint call has
                  \* started since
    server        \* the server process: its mode, the CacheManager instances it
                  \* has created, and the history of the instances used

vars == <<memoryCache, config, now, calls, ret, written, inserted, clearedSince, server>>

----------------------------------------------------------------------------
(* Bounds of the model *)

\* The clock advances in steps of one second, at most this many times.
MaxSeconds == 1

\* The /mcp requests that a server in HTTP mode serves, at most.
MaxRequests == 2

----------------------------------------------------------------------------
(* Program constants *)

MsPerSecond == 1000

DATA_TTL_XRAY_FLUX == 60
DATA_TTL_KP_INDEX == 180
DATA_TTL_SOLAR_WIND == 60
DATA_TTL_FORECAST == 3600
DATA_TTL_HISTORICAL == 86400
DATA_TTL_ALERTS == 60

----------------------------------------------------------------------------
(* Inputs *)

\* Keys given to the CacheManager directly; the empty string is a string too.
Keys == {"", "a", "b"}

\* Payloads stored and retrieved.
Payloads == {"d1", "d2"}

\* The optional ttl argument: <<>> is undefined, <<t>> is t seconds.
TtlOverrides == {<<>>, <<0>>, <<1>>}

\* config.ttlSeconds and config.maxEntries given at construction.
ConfigTtlSeconds == {2}

ConfigMaxEntries == {1, 2}

\* The endpoints fetched in the model (keys of NOAA_ENDPOINTS).
Endpoints == {"XRAY_FLUX", "KP_INDEX"}

\* `noaa_${endpoint}`
cacheKey(endpoint) == "noaa_" \o endpoint

AllKeys == Keys \cup {cacheKey(e) : e \in Endpoints}

\* The fetchEndpoint calls that can be in flight at the same time.
Calls == {"c1", "c2"}

----------------------------------------------------------------------------
(* JavaScript values *)

\* null, as returned by get and getStale
Null == [isNull |-> TRUE]

\* undefined, as returned by Map.get for a missing key
Undefined == [isUndefined |-> TRUE]

\* a ?? b
Nullish(opt, default) == IF opt = <<>> THEN default ELSE opt[1]

----------------------------------------------------------------------------
(* Map<string, CacheEntry>: insertion-ordered *)

MapHas(m, k) == \E i \in 1..Len(m) : m[i].key = k

MapIndex(m, k) == CHOOSE i \in 1..Len(m) : m[i].key = k

MapGet(m, k) == IF MapHas(m, k) THEN m[MapIndex(m, k)].entry ELSE Undefined

\* Map.set keeps the position of a key that is present and appends a new one.
MapSet(m, k, e) ==
    IF MapHas(m, k)
    THEN [m EXCEPT ![MapIndex(m, k)] = [key |-> k, entry |-> e]]
    ELSE Append(m, [key |-> k, entry |-> e])

MapDelete(m, k) == SelectSeq(m, LAMBDA p : p.key /= k)

MapKeys(m) == {m[i].key : i \in 1..Len(m)}

----------------------------------------------------------------------------
(* CacheManager *)

\* `entry.expiresAt < Date.now()`
isExpiredLe(entry, t) == entry.expiresAt <= t

isExpiredNever(entry, t) == FALSE

isExpired(entry, t) == entry.expiresAt < t

\* get(key): the store afterwards and the value returned
getPurgesExpired(m, k, t) ==
    LET entry == MapGet(m, k) IN
    IF entry = Undefined
    THEN [cache |-> m, value |-> Null]
    ELSE IF isExpired(entry, t)
         THEN [cache |-> SelectSeq(m, LAMBDA p : ~isExpired(p.entry, t)), value |-> Null]
         ELSE [cache |-> m, value |-> entry]

getTouches(m, k, t) ==
    LET entry == MapGet(m, k) IN
    IF entry = Undefined
    THEN [cache |-> m, value |-> Null]
    ELSE IF isExpired(entry, t)
         THEN [cache |-> MapDelete(m, k), value |-> Null]
         ELSE [cache |-> MapSet(m, k, [entry EXCEPT !.fetchedAt = t]), value |-> entry]

getMissIsUndefined(m, k, t) ==
    LET entry == MapGet(m, k) IN
    IF entry = Undefined
    THEN [cache |-> m, value |-> Undefined]
    ELSE IF isExpired(entry, t)
         THEN [cache |-> MapDelete(m, k), value |-> Null]
         ELSE [cache |-> m, value |-> entry]

get(m, k, t) ==
    LET entry == MapGet(m, k) IN
    IF entry = Undefined
    THEN [cache |-> m, value |-> Null]
    ELSE IF isExpired(entry, t)
         THEN [cache |-> MapDelete(m, k), value |-> Null]
         ELSE [cache |-> m, value |-> entry]

\* `if (oldestKey)`: null and the empty string are falsy
Truthy(oldestKey) == oldestKey /= <<>> /\ oldestKey[1] /= ""

\* The scan of evictOldest from position i on: oldestKey is <<>> for null,
\* isInf says that oldestTime is still Number.POSITIVE_INFINITY.
RECURSIVE scanOldest(_, _, _)
scanOldest(m, i, acc) ==
    IF i > Len(m)
    THEN acc
    ELSE scanOldest(m, i + 1,
            IF acc.isInf \/ m[i].entry.fetchedAt < acc.oldestTime
            THEN [oldestKey |-> <<m[i].key>>,
                  oldestTime |-> m[i].entry.fetchedAt,
                  isInf |-> FALSE]
            ELSE acc)

evictExpiredFirst(m) ==
    LET expired == SelectSeq(m, LAMBDA p : isExpiredLe(p.entry, now))
        s == scanOldest(IF expired /= <<>> THEN expired ELSE m, 1,
                        [oldestKey |-> <<>>, oldestTime |-> 0, isInf |-> TRUE]) IN
    IF Truthy(s.oldestKey) THEN MapDelete(m, s.oldestKey[1]) ELSE m

evictOldestAndExpired(m) ==
    LET s == scanOldest(m, 1, [oldestKey |-> <<>>, oldestTime |-> 0, isInf |-> TRUE]) IN
    SelectSeq(IF Truthy(s.oldestKey) THEN MapDelete(m, s.oldestKey[1]) ELSE m,
              LAMBDA p : ~isExpired(p.entry, now))

evictOldest(m) ==
    LET s == scanOldest(m, 1, [oldestKey |-> <<>>, oldestTime |-> 0, isInf |-> TRUE]) IN
    IF Truthy(s.oldestKey) THEN MapDelete(m, s.oldestKey[1]) ELSE m

\* The entry built by set at time t
newEntryFalsyTtl(cfg, data, ttlOverride, t) ==
    LET ttl == IF ttlOverride = <<>> \/ ttlOverride[1] = 0
               THEN cfg.ttlSeconds ELSE ttlOverride[1] IN
    [data |-> data, fetchedAt |-> t, expiresAt |-> t + ttl * MsPerSecond]

newEntry(cfg, data, ttlOverride, t) ==
    LET ttl == Nullish(ttlOverride, cfg.ttlSeconds) IN
    [data |-> data, fetchedAt |-> t, expiresAt |-> t + ttl * MsPerSecond]

\* set(key, data, ttlOverride): the store afterwards
setDropsWhenFull(m, cfg, k, data, ttlOverride, t) ==
    IF Len(m) >= cfg.maxEntries
    THEN evictOldest(m)
    ELSE MapSet(m, k, newEntry(cfg, data, ttlOverride, t))

setKeepsFirst(m, cfg, k, data, ttlOverride, t) ==
    IF MapHas(m, k)
    THEN m
    ELSE MapSet(IF Len(m) >= cfg.maxEntries THEN evictOldest(m) ELSE m,
                k, newEntry(cfg, data, ttlOverride, t))

setKeepsFetchedAt(m, cfg, k, data, ttlOverride, t) ==
    LET m1 == IF Len(m) >= cfg.maxEntries THEN evictOldest(m) ELSE m
        e  == newEntry(cfg, data, ttlOverride, t) IN
    MapSet(m1, k, IF MapHas(m1, k)
                  THEN [e EXCEPT !.fetchedAt = MapGet(m1, k).fetchedAt]
                  ELSE e)

set(m, cfg, k, data, ttlOverride, t) ==
    LET m1 == IF Len(m) >= cfg.maxEntries THEN evictOldest(m) ELSE m IN
    MapSet(m1, k, newEntry(cfg, data, ttlOverride, t))

\* The keys that the eviction of set(...) removes from the store m
evictedBy(m, cfg) ==
    IF Len(m) >= cfg.maxEntries THEN MapKeys(m) \ MapKeys(evictOldest(m)) ELSE {}

\* invalidate(key): Map.delete returns whether the key was present
invalidateReportsTrue(m, k) == [cache |-> MapDelete(m, k), value |-> TRUE]

invalidate(m, k) == [cache |-> MapDelete(m, k), value |-> MapHas(m, k)]

invalidateAllExpired(m) == SelectSeq(m, LAMBDA p : ~isExpired(p.entry, now))

invalidateAll(m) == <<>>

getStatsLiveOnly(m, cfg) ==
    [size |-> Len(SelectSeq(m, LAMBDA p : ~isExpired(p.entry, now))),
     maxEntries |-> cfg.maxEntries, ttlSeconds |-> cfg.ttlSeconds]

getStats(m, cfg) ==
    [size |-> Len(m), maxEntries |-> cfg.maxEntries, ttlSeconds |-> cfg.ttlSeconds]

\* getStale(key): `entry ?? null`
getStaleChecksExpiry(m, k) == get(m, k, now).value

getStale(m, k) ==
    LET entry == MapGet(m, k) IN IF entry = Undefined THEN Null ELSE entry

----------------------------------------------------------------------------
(* History *)

NoEntry == [none |-> TRUE]

\* written after set(k, ...) took the store from m to m2 and wrote entry e:
\* k holds e, and a key that the set evicted holds nothing.
writtenAfterSet(w, m, m2, k, e) ==
    [j \in AllKeys |->
        IF j = k THEN e
        ELSE IF MapHas(m, j) /\ ~MapHas(m2, j) THEN NoEntry
        ELSE w[j]]

----------------------------------------------------------------------------
(* The state after construction *)

Init ==
    /\ memoryCache = <<>>
    /\ config \in [ttlSeconds : ConfigTtlSeconds, maxEntries : ConfigMaxEntries]
    /\ now = 0
    /\ calls = [c \in Calls |-> [pc |-> "idle"]]
    /\ ret = [op |-> "new"]
    /\ written = [j \in AllKeys |-> NoEntry]
    /\ inserted = <<>>
    /\ clearedSince = FALSE
    /\ server = [mode |-> "none", caches |-> <<>>, used |-> {}, last |-> <<>>]

----------------------------------------------------------------------------
(* Operations of the CacheManager, called directly *)

Get(k) ==
    /\ memoryCache' = get(memoryCache, k, now).cache
    /\ ret' = [op |-> "get", key |-> k, value |-> get(memoryCache, k, now).value]
    /\ UNCHANGED <<config, now, calls, written, inserted, clearedSince, server>>

Set(k, data, ttlOverride) ==
    /\ memoryCache' = set(memoryCache, config, k, data, ttlOverride, now)
    /\ ret' = [op |-> "set", key |-> k, data |-> data, ttl |-> ttlOverride,
               evicted |-> evictedBy(memoryCache, config)]
    /\ written' = writtenAfterSet(written, memoryCache, memoryCache', k,
                                  newEntry(config, data, ttlOverride, now))
    /\ UNCHANGED <<config, now, calls, inserted, clearedSince, server>>

Invalidate(k) ==
    /\ memoryCache' = invalidate(memoryCache, k).cache
    /\ ret' = [op |-> "invalidate", key |-> k, value |-> invalidate(memoryCache, k).value]
    /\ written' = [written EXCEPT ![k] = NoEntry]
    /\ UNCHANGED <<config, now, calls, inserted, clearedSince, server>>

InvalidateAll ==
    /\ memoryCache' = invalidateAll(memoryCache)
    /\ ret' = [op |-> "invalidateAll", cleared |-> Len(memoryCache)]
    /\ written' = [j \in AllKeys |-> NoEntry]
    /\ UNCHANGED <<config, now, calls, inserted, clearedSince, server>>

GetStats ==
    /\ ret' = [op |-> "getStats", value |-> getStats(memoryCache, config)]
    /\ UNCHANGED <<memoryCache, config, now, calls, written, inserted, clearedSince, server>>

GetStale(k) ==
    /\ ret' = [op |-> "getStale", key |-> k, value |-> getStale(memoryCache, k)]
    /\ UNCHANGED <<memoryCache, config, now, calls, written, inserted, clearedSince, server>>

\* Time passes: Date.now() is one second later.
Tick ==
    /\ now < MaxSeconds * MsPerSecond
    /\ now' = now + MsPerSecond
    /\ ret' = [op |-> "tick"]
    /\ UNCHANGED <<memoryCache, config, calls, written, inserted, clearedSince, server>>

CacheNext ==
    \/ \E k \in Keys : Get(k)
    \/ \E k \in Keys, data \in Payloads, ttlOverride \in TtlOverrides : Set(k, data, ttlOverride)
    \/ \E k \in Keys : Invalidate(k)
    \/ InvalidateAll
    \/ GetStats
    \/ \E k \in Keys : GetStale(k)
    \/ Tick

\* A CacheManager used on its own, with any keys
CacheSpec == Init /\ [][CacheNext]_vars

\* set(k, data, ttlOverride) of a key not set before, one millisecond after
\* the previous operation.
Insert(k, data, ttlOverride) ==
    /\ \A i \in 1..Len(inserted) : inserted[i] /= k
    /\ now' = now + 1
    /\ memoryCache' = set(memoryCache, config, k, data, ttlOverride, now')
    /\ ret' = [op |-> "set", key |-> k, data |-> data, ttl |-> ttlOverride,
               evicted |-> evictedBy(memoryCache, config),
               evictedEntries |-> {MapGet(memoryCache, j) :
                                     j \in evictedBy(memoryCache, config)}]
    /\ written' = writtenAfterSet(written, memoryCache, memoryCache', k,
                                  newEntry(config, data, ttlOverride, now'))
    /\ inserted' = Append(inserted, k)
    /\ UNCHANGED <<config, calls, clearedSince, server>>

FifoNext ==
    \E k \in Keys, data \in Payloads, ttlOverride \in TtlOverrides : Insert(k, data, ttlOverride)

\* A CacheManager that is filled by sets of distinct keys at strictly
\* increasing times, and nothing else
FifoSpec == Init /\ [][FifoNext]_vars

----------------------------------------------------------------------------
(* NoaaClient *)

\* What the network can answer to `fetch(url)`: a Response with its ok flag,
\* status and statusText.
Responses ==
    { [ok |-> TRUE, status |-> 200, statusText |-> "OK"],
      [ok |-> FALSE, status |-> 404, statusText |-> "Not Found"],
      [ok |-> FALSE, status |-> 500, statusText |-> "Internal Server Error"] }

\* What `fetch(url)` and `response.json()` can throw: Error objects.
FetchErrors == { [isError |-> TRUE, message |-> "fetch failed"] }

JsonErrors == { [isError |-> TRUE, message |-> "Unexpected token < in JSON"] }

\* `error instanceof Error ? error.message : 'Unknown error'`
errorMessage(error) == IF error.isError THEN error.message ELSE "Unknown error"

\* How a call ends: it returns an ApiResponse, or an exception leaves it.
Return(value) == [kind |-> "return", value |-> value]

Throw(error) == [kind |-> "throw", error |-> error]

getTtlDefaultShort(endpoint) ==
    CASE endpoint \in {"XRAY_FLUX", "PROTON_FLUX"} -> DATA_TTL_XRAY_FLUX
      [] endpoint = "KP_INDEX" -> DATA_TTL_KP_INDEX
      [] endpoint \in {"SOLAR_WIND_REALTIME", "SOLAR_WIND_MAG"} -> DATA_TTL_SOLAR_WIND
      [] endpoint \in {"FORECAST_27DAY", "PREDICTED_SFI"} -> DATA_TTL_FORECAST
      [] endpoint = "SUNSPOT_NUMBER" -> DATA_TTL_HISTORICAL
      [] endpoint = "ALERTS" -> DATA_TTL_ALERTS
      [] OTHER -> DATA_TTL_XRAY_FLUX

getTtlForEndpoint(endpoint) ==
    CASE endpoint \in {"XRAY_FLUX", "PROTON_FLUX"} -> DATA_TTL_XRAY_FLUX
      [] endpoint = "KP_INDEX" -> DATA_TTL_KP_INDEX
      [] endpoint \in {"SOLAR_WIND_REALTIME", "SOLAR_WIND_MAG"} -> DATA_TTL_SOLAR_WIND
      [] endpoint \in {"FORECAST_27DAY", "PREDICTED_SFI"} -> DATA_TTL_FORECAST
      [] endpoint = "SUNSPOT_NUMBER" -> DATA_TTL_HISTORICAL
      [] endpoint = "ALERTS" -> DATA_TTL_ALERTS
      [] OTHER -> DATA_TTL_KP_INDEX

\* The cache check that opens fetchEndpoint: the store afterwards and the
\* entry found (Null when forceRefresh skips the check or get finds nothing).
checkCacheAlways(m, endpoint, forceRefresh, t) == get(m, cacheKey(endpoint), t)

checkCacheForcedDeletes(m, endpoint, forceRefresh, t) ==
    IF forceRefresh
    THEN [cache |-> MapDelete(m, cacheKey(endpoint)), value |-> Null]
    ELSE get(m, cacheKey(endpoint), t)

checkCache(m, endpoint, forceRefresh, t) ==
    IF forceRefresh
    THEN [cache |-> m, value |-> Null]
    ELSE get(m, cacheKey(endpoint), t)

\* The ApiResponse of a cache hit
cacheHitStampedNow(cached) ==
    [success |-> TRUE, data |-> cached.data, cachedAt |-> now, source |-> "cache"]

cacheHit(cached) ==
    [success |-> TRUE, data |-> cached.data, cachedAt |-> cached.fetchedAt,
     source |-> "cache"]

\* The catch block: the stale entry with an advisory error, or a failure.
catchRethrows(m, endpoint, error) == Throw(error)

catchNoStale(m, endpoint, error) ==
    Return([success |-> FALSE, error |-> errorMessage(error), source |-> "fetch"])

catchBlock(m, endpoint, error) ==
    LET stale == getStale(m, cacheKey(endpoint)) IN
    IF stale /= Null
    THEN Return([success |-> TRUE, data |-> stale.data, cachedAt |-> stale.fetchedAt,
                 source |-> "cache",
                 error |-> "Fetch failed: " \o errorMessage(error) \o ", using stale cache"])
    ELSE Return([success |-> FALSE, error |-> errorMessage(error), source |-> "fetch"])

\* `if (!response.ok) { ... }`: the stale entry with an advisory error, or
\* an Error thrown into the catch block of the same call.
notOkThrowsFirst(m, endpoint, response) ==
    catchBlock(m, endpoint,
       [isError |-> TRUE,
        message |-> "HTTP " \o ToString(response.status) \o ": " \o response.statusText])

notOkLiveOnly(m, endpoint, response) ==
    LET stale == get(m, cacheKey(endpoint), now).value IN
    IF stale /= Null
    THEN Return([success |-> TRUE, data |-> stale.data, cachedAt |-> stale.fetchedAt,
                 source |-> "cache",
                 error |-> "API returned " \o ToString(response.status)
                           \o ", using stale cache"])
    ELSE Return([success |-> FALSE,
                 error |-> "HTTP " \o ToString(response.status) \o ": "
                           \o response.statusText,
                 source |-> "fetch"])

notOk(m, endpoint, response) ==
    LET stale == getStale(m, cacheKey(endpoint)) IN
    IF stale /= Null
    THEN Return([success |-> TRUE, data |-> stale.data, cachedAt |-> stale.fetchedAt,
                 source |-> "cache",
                 error |-> "API returned " \o ToString(response.status)
                           \o ", using stale cache"])
    ELSE catchBlock(m, endpoint,
            [isError |-> TRUE,
             message |-> "HTTP " \o ToString(response.status) \o ": "
                         \o response.statusText])

\* The ttl of a successful retrieval: `options?.ttl ?? this.getTtlForEndpoint(endpoint)`
ttlForFalsy(ttlOption, endpoint) ==
    IF ttlOption = <<>> \/ ttlOption[1] = 0
    THEN getTtlForEndpoint(endpoint)
    ELSE ttlOption[1]

ttlFor(ttlOption, endpoint) == Nullish(ttlOption, getTtlForEndpoint(endpoint))

\* The call once `fetch(url)` is issued: suspended, with the number of
\* network requests it has issued so far.
awaitFetchCoalesced(endpoint, ttlOption) ==
    [pc |-> "fetch", endpoint |-> endpoint, ttl |-> ttlOption,
     requests |-> IF \E d \in DOMAIN calls :
                        calls[d].pc /= "idle" /\ calls[d].endpoint = endpoint
                  THEN 0 ELSE 1]

awaitFetch(endpoint, ttlOption) ==
    [pc |-> "fetch", endpoint |-> endpoint, ttl |-> ttlOption, requests |-> 1]

\* The call after its failure path (the stale return or the catch block): it has
\* returned; there is no loop around the try block.
afterFailureRetries(call) ==
    IF call.requests < 2
    THEN [call EXCEPT !.pc = "fetch", !.requests = call.requests + 1]
    ELSE [pc |-> "idle"]

afterFailureSuspended(call) == call

afterFailure(call) == [pc |-> "idle"]

\* The ApiResponse of a successful retrieval
fetched(data, t) ==
    [success |-> TRUE, data |-> data, cachedAt |-> t, source |-> "fetch"]

\* fetchEndpoint(endpoint, {forceRefresh, ttl}) up to `await fetch(url)`:
\* it returns from the cache, or is suspended in the network retrieval.
FetchEndpoint(c, endpoint, forceRefresh, ttlOption) ==
    /\ calls[c].pc = "idle"
    /\ LET checked == checkCache(memoryCache, endpoint, forceRefresh, now) IN
       /\ memoryCache' = checked.cache
       /\ IF checked.value /= Null
          THEN /\ calls' = calls
               /\ ret' = [op |-> "fetchEndpoint", call |-> c, endpoint |-> endpoint,
                          forceRefresh |-> forceRefresh, path |-> "hit",
                          requests |-> 0, afterClear |-> clearedSince,
                          end |-> Return(cacheHit(checked.value))]
          ELSE /\ calls' = [calls EXCEPT ![c] = awaitFetch(endpoint, ttlOption)]
               /\ ret' = [op |-> "await fetch", call |-> c, endpoint |-> endpoint,
                          forceRefresh |-> forceRefresh,
                          afterClear |-> clearedSince]
    /\ clearedSince' = FALSE
    /\ UNCHANGED <<config, now, written, inserted, server>>

\* `await fetch(url)` resolves with a response.
FetchResolves(c, response) ==
    /\ calls[c].pc = "fetch"
    /\ IF response.ok
       THEN /\ calls' = [calls EXCEPT ![c].pc = "json"]
            /\ ret' = [op |-> "await json", call |-> c, endpoint |-> calls[c].endpoint]
       ELSE /\ calls' = [calls EXCEPT ![c] = afterFailure(calls[c])]
            /\ ret' = [op |-> "fetchEndpoint", call |-> c, endpoint |-> calls[c].endpoint,
                       path |-> "notOk", response |-> response,
                       requests |-> calls[c].requests,
                       end |-> notOk(memoryCache, calls[c].endpoint, response)]
    /\ UNCHANGED <<memoryCache, config, now, written, inserted, clearedSince, server>>

\* `await fetch(url)` rejects.
FetchRejects(c, error) ==
    /\ calls[c].pc = "fetch"
    /\ calls' = [calls EXCEPT ![c] = afterFailure(calls[c])]
    /\ ret' = [op |-> "fetchEndpoint", call |-> c, endpoint |-> calls[c].endpoint,
               path |-> "catch", error |-> error, requests |-> calls[c].requests,
               end |-> catchBlock(memoryCache, calls[c].endpoint, error)]
    /\ UNCHANGED <<memoryCache, config, now, written, inserted, clearedSince, server>>

\* `await response.json()` resolves with the payload: it is stored and returned.
JsonResolves(c, data) ==
    /\ calls[c].pc = "json"
    /\ memoryCache' = set(memoryCache, config, cacheKey(calls[c].endpoint), data,
                          <<ttlFor(calls[c].ttl, calls[c].endpoint)>>, now)
    /\ written' = writtenAfterSet(written, memoryCache, memoryCache',
                      cacheKey(calls[c].endpoint),
                      newEntry(config, data,
                               <<ttlFor(calls[c].ttl, calls[c].endpoint)>>, now))
    /\ calls' = [calls EXCEPT ![c] = [pc |-> "idle"]]
    /\ ret' = [op |-> "fetchEndpoint", call |-> c, endpoint |-> calls[c].endpoint,
               path |-> "fetched", ttl |-> calls[c].ttl, payload |-> data,
               requests |-> calls[c].requests,
               replaced |-> MapGet(memoryCache, cacheKey(calls[c].endpoint)),
               end |-> Return(fetched(data, now))]
    /\ UNCHANGED <<config, now, inserted, clearedSince, server>>

\* `await response.json()` rejects: the body does not decode.
JsonRejects(c, error) ==
    /\ calls[c].pc = "json"
    /\ calls' = [calls EXCEPT ![c] = afterFailure(calls[c])]
    /\ ret' = [op |-> "fetchEndpoint", call |-> c, endpoint |-> calls[c].endpoint,
               path |-> "catch", error |-> error, requests |-> calls[c].requests,
               end |-> catchBlock(memoryCache, calls[c].endpoint, error)]
    /\ UNCHANGED <<memoryCache, config, now, written, inserted, clearedSince, server>>

\* getCacheStats()
GetCacheStats ==
    /\ ret' = [op |-> "getCacheStats", value |-> getStats(memoryCache, config)]
    /\ UNCHANGED <<memoryCache, config, now, calls, written, inserted, clearedSince, server>>

\* clearCache()
ClearCache ==
    /\ memoryCache' = invalidateAll(memoryCache)
    /\ ret' = [op |-> "clearCache"]
    /\ written' = [j \in AllKeys |-> NoEntry]
    /\ clearedSince' = TRUE
    /\ UNCHANGED <<config, now, calls, inserted, server>>

----------------------------------------------------------------------------
(* The server process *)

\* The tools that read through the cache, with the endpoint they fetch
DataTools == {"get_xray_flux", "get_kp_index"}

toolEndpoint(tool) == IF tool = "get_xray_flux" THEN "XRAY_FLUX" ELSE "KP_INDEX"

Tools == DataTools \cup {"get_cache_stats", "clear_cache"}

\* A tool handler run on the CacheManager m of its client: the store
\* afterwards and the value returned.  The retrieval of a data tool is taken
\* to succeed with payload data before any other handler runs.
toolHandler(m, tool, data) ==
    IF tool = "get_cache_stats"
    THEN [cache |-> m, value |-> getStats(m, config)]
    ELSE IF tool = "clear_cache"
    THEN [cache |-> invalidateAll(m), value |-> "Cache cleared successfully."]
    ELSE LET checked == checkCache(m, toolEndpoint(tool), FALSE, now) IN
         IF checked.value /= Null
         THEN [cache |-> checked.cache, value |-> cacheHit(checked.value)]
         ELSE [cache |-> set(checked.cache, config, cacheKey(toolEndpoint(tool)), data,
                             <<ttlFor(<<>>, toolEndpoint(tool))>>, now),
               value |-> fetched(data, now)]

\* The index, in server.caches, of the CacheManager that a /mcp request gets in
\* HTTP mode: createServer builds a new one for each request.
mcpInstance(srv) == Len(srv.caches) + 1

\* runStdioServer: createServer builds the one CacheManager and client.
RunStdioServer ==
    /\ server.mode = "none"
    /\ server' = [server EXCEPT !.mode = "stdio", !.caches = <<(<<>>)>>]
    /\ ret' = [op |-> "runStdioServer"]
    /\ UNCHANGED <<memoryCache, config, now, calls, written, inserted, clearedSince>>

\* runHttpServer: the shared CacheManager and sharedClient are built.
RunHttpServer ==
    /\ server.mode = "none"
    /\ server' = [server EXCEPT !.mode = "http", !.caches = <<(<<>>)>>]
    /\ ret' = [op |-> "runHttpServer"]
    /\ UNCHANGED <<memoryCache, config, now, calls, written, inserted, clearedSince>>

\* A tool call in STDIO mode: the handler of the one server runs.
StdioToolCall(tool, data) ==
    /\ server.mode = "stdio"
    /\ LET done == toolHandler(server.caches[1], tool, data) IN
       /\ server' = [server EXCEPT !.caches[1] = done.cache,
                                   !.used = @ \cup {1},
                                   !.last = done.cache]
       /\ ret' = [op |-> "tool", tool |-> tool, instance |-> 1, value |-> done.value]
    /\ UNCHANGED <<memoryCache, config, now, calls, written, inserted, clearedSince>>

\* A request to /mcp in HTTP mode: createServer(serverConfig.cache), then the
\* handler of that server runs.
McpRequest(tool, data) ==
    /\ server.mode = "http"
    /\ Len(server.caches) <= MaxRequests
    /\ LET i    == mcpInstance(server)
           all  == Append(server.caches, <<>>)
           done == toolHandler(all[i], tool, data) IN
       /\ server' = [server EXCEPT !.caches = [all EXCEPT ![i] = done.cache],
                                   !.used = @ \cup {i},
                                   !.last = done.cache]
       /\ ret' = [op |-> "tool", tool |-> tool, instance |-> i, value |-> done.value]
    /\ UNCHANGED <<memoryCache, config, now, calls, written, inserted, clearedSince>>

\* A request to /stats in HTTP mode: sharedClient.getCacheStats()
StatsRequest ==
    /\ server.mode = "http"
    /\ server' = [server EXCEPT !.used = @ \cup {1}]
    /\ ret' = [op |-> "tool", tool |-> "/stats", instance |-> 1,
               value |-> getStats(server.caches[1], config)]
    /\ UNCHANGED <<memoryCache, config, now, calls, written, inserted, clearedSince>>

ServerNext ==
    \/ RunStdioServer
    \/ RunHttpServer
    \/ \E tool \in Tools, data \in Payloads : StdioToolCall(tool, data)
    \/ \E tool \in Tools, data \in Payloads : McpRequest(tool, data)
    \/ StatsRequest

\* One server process, in STDIO or in HTTP mode
ServerSpec == Init /\ [][ServerNext]_vars

----------------------------------------------------------------------------
(* Functions of the state-free kind: the TTL table and interpretKp *)

\* keyof typeof NOAA_ENDPOINTS
EndpointKeys ==
    {"XRAY_FLUX", "KP_INDEX", "SOLAR_WIND_REALTIME", "SOLAR_WIND_MAG",
     "PREDICTED_SFI", "FORECAST_27DAY", "SUNSPOT_NUMBER", "ALERTS",
     "PROTON_FLUX", "DST_INDEX", "AURORA_FORECAST"}

\* Kp is a number with a fraction (parseFloat of "2.33"): it is counted in
\* tenths here, so Tenths(n) is the integer Kp value n.
Tenths(n) == n * 10

KpValues == 0..Tenths(9)

\* interpretKp(kp), kp in tenths
interpretKp(kp) ==
    IF kp < Tenths(2) THEN
        [level |-> "Quiet",
         description |-> "Geomagnetic field is quiet",
         hfImpact |-> "Good HF propagation conditions"]
    ELSE IF kp < Tenths(4) THEN
        [level |-> "Unsettled",
         description |-> "Geomagnetic field is unsettled",
         hfImpact |-> "Generally good HF conditions, minor disturbances possible"]
    ELSE IF kp < Tenths(5) THEN
        [level |-> "Active",
         description |-> "Geomagnetic field is active",
         hfImpact |-> "HF propagation may be affected, especially at high latitudes"]
    ELSE IF kp < Tenths(6) THEN
        [level |-> "Minor Storm (G1)",
         description |-> "Minor geomagnetic storm",
         hfImpact |-> "HF radio may experience fading at higher latitudes"]
    ELSE IF kp < Tenths(7) THEN
        [level |-> "Moderate Storm (G2)",
         description |-> "Moderate geomagnetic storm",
         hfImpact |-> "HF radio fadeouts likely at high latitudes, possible at mid-latitudes"]
    ELSE IF kp < Tenths(8) THEN
        [level |-> "Strong Storm (G3)",
         description |-> "Strong geomagnetic storm",
         hfImpact |-> "HF radio blackouts may extend to mid-latitudes"]
    ELSE IF kp < Tenths(9) THEN
        [level |-> "Severe Storm (G4)",
         description |-> "Severe geomagnetic storm",
         hfImpact |-> "HF radio communications significantly degraded"]
    ELSE
        [level |-> "Extreme Storm (G5)",
         description |-> "Extreme geomagnetic storm",
         hfImpact |-> "HF radio communications may be impossible on most frequencies"]

\* The ttl that fetchEndpoint passes to cache.set for this endpoint and ttl
\* option, and the entry that set builds with it.
TtlFor(endpoint, ttlOption) ==
    /\ ret' = [op |-> "ttlFor", endpoint |-> endpoint, ttl |-> ttlOption,
               value |-> ttlFor(ttlOption, endpoint),
               entry |-> newEntry(config, "d1", <<ttlFor(ttlOption, endpoint)>>, now)]
    /\ UNCHANGED <<memoryCache, config, now, calls, written, inserted, clearedSince, server>>

InterpretKp(kp) ==
    /\ ret' = [op |-> "interpretKp", kp |-> kp, value |-> interpretKp(kp)]
    /\ UNCHANGED <<memoryCache, config, now, calls, written, inserted, clearedSince, server>>

UtilNext ==
    \/ \E endpoint \in EndpointKeys, ttlOption \in TtlOverrides : TtlFor(endpoint, ttlOption)
    \/ \E kp \in KpValues : InterpretKp(kp)

\* The functions applied to every input
UtilSpec == Init /\ [][UtilNext]_vars

----------------------------------------------------------------------------

Next ==
    \/ \E c \in Calls, endpoint \in Endpoints, forceRefresh \in BOOLEAN,
          ttlOption \in TtlOverrides : FetchEndpoint(c, endpoint, forceRefresh, ttlOption)
    \/ \E c \in Calls, response \in Responses : FetchResolves(c, response)
    \/ \E c \in Calls, error \in FetchErrors : FetchRejects(c, error)
    \/ \E c \in Calls, data \in Payloads : JsonResolves(c, data)
    \/ \E c \in Calls, error \in JsonErrors : JsonRejects(c, error)
    \/ GetCacheStats
    \/ ClearCache
    \/ Tick

\* A NoaaClient with its CacheManager
Spec == Init /\ [][Next]_vars

----------------------------------------------------------------------------
(* A network that responds *)

\* The retrieval of call c responds: `await fetch(url)` or
\* `await response.json()` resolves or rejects.
Responds(c) ==
    \/ \E response \in Responses : FetchResolves(c, response)
    \/ \E error \in FetchErrors : FetchRejects(c, error)
    \/ \E data \in Payloads : JsonResolves(c, data)
    \/ \E error \in JsonErrors : JsonRejects(c, error)

LiveNext ==
    \/ \E c \in Calls, endpoint \in Endpoints, forceRefresh \in BOOLEAN :
          FetchEndpoint(c, endpoint, forceRefresh, <<>>)
    \/ \E c \in Calls : Responds(c)
    \/ GetCacheStats
    \/ ClearCache
    \/ Tick

\* A NoaaClient whose pending retrievals all respond in the end: nothing in
\* the program completes a call otherwise.
LiveSpec == Init /\ [][LiveNext]_vars /\ \A c \in Calls : WF_vars(Responds(c))

----------------------------------------------------------------------------
(* Two overlapping fetchEndpoint calls for one endpoint *)

\* The call c1 starts, without forceRefresh, while c2 is not running.
FirstStarts(endpoint, ttlOption) ==
    /\ calls["c2"].pc = "idle"
    /\ FetchEndpoint("c1", endpoint, FALSE, ttlOption)

\* The call c2 starts for the endpoint of c1 while c1 is suspended.
SecondStarts(forceRefresh, ttlOption) ==
    /\ calls["c1"].pc /= "idle"
    /\ FetchEndpoint("c2", calls["c1"].endpoint, forceRefresh, ttlOption)

OverlapNext ==
    \/ \E endpoint \in Endpoints, ttlOption \in TtlOverrides : FirstStarts(endpoint, ttlOption)
    \/ \E forceRefresh \in BOOLEAN, ttlOption \in TtlOverrides :
          SecondStarts(forceRefresh, ttlOption)
    \/ \E c \in Calls, response \in Responses : FetchResolves(c, response)
    \/ \E c \in Calls, error \in FetchErrors : FetchRejects(c, error)
    \/ \E c \in Calls, data \in Payloads : JsonResolves(c, data)
    \/ \E c \in Calls, error \in JsonErrors : JsonRejects(c, error)
    \/ ClearCache
    \/ Tick

\* A NoaaClient on which, of two calls that overlap, c1 is the one that
\* started first
OverlapSpec == Init /\ [][OverlapNext]_vars

----------------------------------------------------------------------------
(* Queries: queryData, getXrayFlux, getKpIndex, getSolarWind, getSummary *)

\* The endpoints that the queries fetch
QueryEndpoints == {"KP_INDEX", "XRAY_FLUX", "SOLAR_WIND_REALTIME", "SOLAR_WIND_MAG"}

\* What `response.json()` can deliver besides null: an array with its items,
\* and an object that is no array.
JsonArray(items) == [json |-> "array", items |-> items]

JsonObject == [json |-> "object"]

\* A time_tag string is modelled by the number of its minute, the empty
\* string by 0: the order of the strings is the order of the numbers.
MsPerMinute == 60000

\* new Date(timeTag).getTime()
getTime(timeTag) == timeTag * MsPerMinute

\* Numbers that parseFloat delivers
Num(n) == [num |-> n]

NaN == [nan |-> TRUE]

parseFloat(s) ==
    CASE s = "5" -> Num(5)
      [] s = "0" -> Num(0)
      [] OTHER -> NaN

\* parseFloat(s) || 0
parseFloatOrZero(s) == IF parseFloat(s) \in {NaN, Num(0)} THEN Num(0) ELSE parseFloat(s)

\* Payloads of XRAY_FLUX: objects with time_tag, not in the order of time
XrayPayloads ==
    { JsonArray(<< [time_tag |-> 2, flux |-> "B"], [time_tag |-> 3, flux |-> "C"],
                   [time_tag |-> 0, flux |-> "A"], [time_tag |-> 1, flux |-> "B"] >>),
      JsonArray(<<>>),
      JsonObject,
      Null }

\* Payloads of KP_INDEX, SOLAR_WIND_REALTIME and SOLAR_WIND_MAG: a header row
\* and rows of strings, the time_tag first; one value column stands for all.
TableHeader == <<"time_tag", "value">>

KpPayloads ==
    { JsonArray(<< TableHeader, <<2, "5">>, <<1, "">> >>),
      JsonArray(<< TableHeader >>),
      JsonObject }

PlasmaPayloads ==
    { JsonArray(<< TableHeader, <<2, "5">>, <<1, "">> >>),
      JsonArray(<< TableHeader >>) }

MagPayloads == { JsonArray(<< TableHeader, <<2, "5">> >>) }

JsonPayloads(endpoint) ==
    CASE endpoint = "XRAY_FLUX" -> XrayPayloads
      [] endpoint = "KP_INDEX" -> KpPayloads
      [] endpoint = "SOLAR_WIND_REALTIME" -> PlasmaPayloads
      [] OTHER -> MagPayloads

\* How the retrieval of a fetchEndpoint call can end
QueryOutcomes(endpoint) ==
    {[kind |-> "json", data |-> data] : data \in JsonPayloads(endpoint)}
       \cup {[kind |-> "status", response |-> response] :
                response \in {r \in Responses : r.status = 500}}

\* QueryOptions given to the queries: <<>> is undefined; a field that is
\* absent is undefined.
QueryOptions ==
    { <<>>,
      <<[sortBy |-> "time_tag", sortOrder |-> "asc"]>>,
      <<[limit |-> 1, sortBy |-> "time_tag", sortOrder |-> "desc"]>>,
      <<[startTime |-> 2]>>,
      <<[endTime |-> 2, limit |-> 0]>>,
      <<[filter |-> [flux |-> "B"]]>> }

\* fetchEndpoint from the miss on: the retrieval ends with the outcome.
completeFetch(m, endpoint, outcome) ==
    IF outcome.kind = "json"
    THEN [cache |-> set(m, config, cacheKey(endpoint), outcome.data,
                        <<ttlFor(<<>>, endpoint)>>, now),
          value |-> fetched(outcome.data, now)]
    ELSE IF outcome.kind = "status"
    THEN [cache |-> m, value |-> notOk(m, endpoint, outcome.response).value]
    ELSE [cache |-> m, value |-> catchBlock(m, endpoint, outcome.error).value]

\* The fetchEndpoint calls of one query, started one after the other: each
\* reads the cache before any retrieval has ended.
RECURSIVE checkCaches(_, _)
checkCaches(m, endpoints) ==
    IF endpoints = <<>>
    THEN [cache |-> m, found |-> <<>>]
    ELSE LET checked == checkCache(m, Head(endpoints), FALSE, now)
             rest    == checkCaches(checked.cache, Tail(endpoints)) IN
         [cache |-> rest.cache, found |-> <<checked.value>> \o rest.found]

\* The retrievals then end in the order of their start.
RECURSIVE completeAll(_, _, _, _)
completeAll(m, endpoints, found, outcome) ==
    IF endpoints = <<>>
    THEN [cache |-> m, values |-> <<>>]
    ELSE LET one  == IF Head(found) /= Null
                     THEN [cache |-> m, value |-> cacheHit(Head(found))]
                     ELSE completeFetch(m, Head(endpoints), outcome[Head(endpoints)])
             rest == completeAll(one.cache, Tail(endpoints), Tail(found), outcome) IN
         [cache |-> rest.cache, values |-> <<one.value>> \o rest.values]

fetchEndpoints(m, endpoints, outcome) ==
    LET checked == CHOOSE c \in {checkCaches(m, endpoints)} : TRUE IN
    completeAll(checked.cache, endpoints, checked.found, outcome)

\* `!response.data` is false: the data are neither undefined nor null.
HasData(response) == "data" \in DOMAIN response /\ response.data /= Null

\* The time range filter of queryData
timeFilter(result, options) ==
    IF "startTime" \in DOMAIN options \/ "endTime" \in DOMAIN options
    THEN SelectSeq(result,
            LAMBDA item :
               IF item.time_tag = 0
               THEN TRUE
               ELSE /\ getTime(item.time_tag)
                         >= (IF "startTime" \in DOMAIN options
                             THEN getTime(options.startTime) ELSE 0)
                    /\ "endTime" \in DOMAIN options
                         => getTime(item.time_tag) <= getTime(options.endTime))
    ELSE result

\* The custom filter of queryData
customFilter(result, options) ==
    IF "filter" \in DOMAIN options
    THEN SelectSeq(result,
            LAMBDA item :
               \A key \in DOMAIN options.filter :
                  key \in DOMAIN item /\ item[key] = options.filter[key])
    ELSE result

\* The comparator of queryData's sort
compare(a, b, sortKey, order) ==
    IF sortKey \notin DOMAIN a /\ sortKey \notin DOMAIN b THEN 0
    ELSE IF sortKey \notin DOMAIN a THEN 1
    ELSE IF sortKey \notin DOMAIN b THEN -1
    ELSE IF a[sortKey] = b[sortKey] THEN 0
    ELSE IF a[sortKey] < b[sortKey] THEN -order
    ELSE order

\* Array.prototype.sort (stable): x is put before the first item that
\* compares greater.
insert(s, x, sortKey, order) ==
    LET greater == {i \in 1..Len(s) : compare(s[i], x, sortKey, order) > 0} IN
    IF greater = {}
    THEN Append(s, x)
    ELSE LET first == CHOOSE i \in greater : \A j \in greater : i <= j IN
         SubSeq(s, 1, first - 1) \o <<x>> \o SubSeq(s, first, Len(s))

RECURSIVE sort(_, _, _)
sort(s, sortKey, order) ==
    IF s = <<>>
    THEN <<>>
    ELSE insert(sort(SubSeq(s, 1, Len(s) - 1), sortKey, order), s[Len(s)], sortKey, order)

sortResult(result, options) ==
    IF "sortBy" \in DOMAIN options
    THEN sort(result, options.sortBy,
              IF "sortOrder" \in DOMAIN options /\ options.sortOrder = "asc" THEN 1 ELSE -1)
    ELSE result

\* `options.limit && options.limit > 0`
limitResult(result, options) ==
    IF "limit" \in DOMAIN options /\ options.limit > 0
    THEN SubSeq(result, 1, IF options.limit < Len(result) THEN options.limit ELSE Len(result))
    ELSE result

\* queryData(data, options): the array given as data afterwards, and the
\* array returned or the TypeError of `[...data]`.
queryDataInPlace(data, options) ==
    IF data.json /= "array"
    THEN [data |-> data,
          end |-> Throw([isError |-> TRUE, message |-> "data is not iterable"])]
    ELSE [data |-> IF /\ "startTime" \notin DOMAIN options
                      /\ "endTime" \notin DOMAIN options
                      /\ "filter" \notin DOMAIN options
                   THEN JsonArray(sortResult(data.items, options))
                   ELSE data,
          end |-> Return(JsonArray(
                     limitResult(
                        sortResult(
                           customFilter(timeFilter(data.items, options), options),
                           options),
                        options)))]

queryData(data, options) ==
    IF data.json /= "array"
    THEN [data |-> data,
          end |-> Throw([isError |-> TRUE, message |-> "data is not iterable"])]
    ELSE [data |-> data,
          end |-> Return(JsonArray(
                     limitResult(
                        sortResult(
                           customFilter(timeFilter(data.items, options), options),
                           options),
                        options)))]

\* getXrayFlux(options) after its fetchEndpoint: the array of the response
\* afterwards, and the end of the call.
getXrayFlux(response, options) ==
    IF ~response.success \/ ~HasData(response) \/ options = <<>>
    THEN [data |-> IF "data" \in DOMAIN response THEN response.data ELSE Undefined,
          end |-> Return(response)]
    ELSE LET queried == queryData(response.data, options[1]) IN
         [data |-> queried.data,
          end |-> IF queried.end.kind = "throw"
                  THEN queried.end
                  ELSE Return([response EXCEPT !.data = queried.end.value])]

\* The rows after the header: `const [_header, ...rows] = data`
rowsOf(data) == IF data.items = <<>> THEN <<>> ELSE Tail(data.items)

\* getKpIndex(options) after its fetchEndpoint
getKpIndex(response, options) ==
    IF ~response.success \/ ~HasData(response)
    THEN Return([f \in DOMAIN response \cup {"data"} |->
                    IF f = "data" THEN Undefined ELSE response[f]])
    ELSE IF response.data.json /= "array"
    THEN Throw([isError |-> TRUE, message |-> "response.data is not iterable"])
    ELSE LET rows   == rowsOf(response.data)
             kpData == JsonArray(IF rows = <<>> THEN <<>>
                                 ELSE [i \in 1..Len(rows) |->
                                         [time_tag |-> rows[i][1],
                                          kp |-> parseFloat(rows[i][2])]]) IN
         Return([response EXCEPT
                   !.data = IF options = <<>> THEN kpData
                            ELSE queryData(kpData, options[1]).end.value])

\* magMap.get(timeTag): the last row of that time_tag, <<>> for undefined
magRow(magRows, timeTag) ==
    LET at == {i \in 1..Len(magRows) : magRows[i][1] = timeTag} IN
    IF at = {} THEN <<>>
    ELSE magRows[CHOOSE i \in at : \A j \in at : j <= i]

\* getSolarWind(options) after its two fetchEndpoint calls
getSolarWind(plasma, mag, options) ==
    IF ~plasma.success \/ ~HasData(plasma) \/ ~mag.success \/ ~HasData(mag)
    THEN Return([success |-> FALSE, error |-> "Failed to fetch solar wind data",
                 source |-> "fetch"])
    ELSE IF plasma.data.json /= "array"
    THEN Throw([isError |-> TRUE, message |-> "plasma.data is not iterable"])
    ELSE IF mag.data.json /= "array"
    THEN Throw([isError |-> TRUE, message |-> "mag.data is not iterable"])
    ELSE LET plasmaRows == rowsOf(plasma.data)
             magRows    == rowsOf(mag.data)
             merged     == IF plasmaRows = <<>> THEN <<>>
                           ELSE [i \in 1..Len(plasmaRows) |->
                                   [time_tag |-> plasmaRows[i][1],
                                    speed |-> parseFloatOrZero(plasmaRows[i][2]),
                                    bz |-> IF magRow(magRows, plasmaRows[i][1]) = <<>>
                                           THEN Num(0)
                                           ELSE parseFloatOrZero(
                                                   magRow(magRows, plasmaRows[i][1])[2])]]
             solarWindData == JsonArray(SelectSeq(merged, LAMBDA item : item.speed /= NaN)) IN
         Return([success |-> TRUE,
                 data |-> IF options = <<>> THEN solarWindData
                          ELSE queryData(solarWindData, options[1]).end.value,
                 source |-> plasma.source,
                 cachedAt |-> plasma.cachedAt])

\* `r.data?.[0] ?? null`
latest(r) ==
    IF "data" \notin DOMAIN r THEN Null
    ELSE IF r.data \in {Null, Undefined} THEN Null
    ELSE IF r.data.items = <<>> THEN Null
    ELSE r.data.items[1]

\* The options of getSummary's three queries
SummaryOptions == <<[limit |-> 1, sortBy |-> "time_tag", sortOrder |-> "desc"]>>

\* getSummary() after its three queries: Promise.all rejects when one of them
\* has thrown.
getSummary(kp, xray, solarWind) ==
    IF kp.kind = "throw" THEN kp
    ELSE IF xray.kind = "throw" THEN xray
    ELSE IF solarWind.kind = "throw" THEN solarWind
    ELSE Return([success |-> TRUE,
                 data |-> [latestKp |-> latest(kp.value),
                           latestXray |-> latest(xray.value),
                           latestSolarWind |-> latest(solarWind.value),
                           fetchedAt |-> now],
                 source |-> "fetch"])

\* The array of the response is the array of the cache entry: what a query
\* does to the one is done to the other.
aliased(m, key, response, after) ==
    IF HasData(response) /\ MapHas(m, key) /\ MapGet(m, key).data = response.data
    THEN MapSet(m, key, [MapGet(m, key) EXCEPT !.data = after])
    ELSE m

GetXrayFlux(options, outcome) ==
    /\ \E f \in {fetchEndpoints(memoryCache, <<"XRAY_FLUX">>,
                                 [e \in {"XRAY_FLUX"} |-> outcome])} :
          \E r \in {getXrayFlux(f.values[1], options)} :
             /\ memoryCache' = aliased(f.cache, cacheKey("XRAY_FLUX"), f.values[1], r.data)
             /\ ret' = [op |-> "getXrayFlux", options |-> options, fetches |-> f.values,
                        end |-> r.end]
    /\ UNCHANGED <<config, now, calls, written, inserted, clearedSince, server>>

GetKpIndex(options, outcome) ==
    /\ \E f \in {fetchEndpoints(memoryCache, <<"KP_INDEX">>,
                                 [e \in {"KP_INDEX"} |-> outcome])} :
          /\ memoryCache' = f.cache
          /\ ret' = [op |-> "getKpIndex", options |-> options, fetches |-> f.values,
                     end |-> getKpIndex(f.values[1], options)]
    /\ UNCHANGED <<config, now, calls, written, inserted, clearedSince, server>>

GetSolarWind(options, plasmaOutcome, magOutcome) ==
    /\ \E f \in {fetchEndpoints(memoryCache, <<"SOLAR_WIND_REALTIME", "SOLAR_WIND_MAG">>,
                      [e \in {"SOLAR_WIND_REALTIME", "SOLAR_WIND_MAG"} |->
                         IF e = "SOLAR_WIND_MAG" THEN magOutcome ELSE plasmaOutcome])} :
          /\ memoryCache' = f.cache
          /\ ret' = [op |-> "getSolarWind", options |-> options, fetches |-> f.values,
                     end |-> getSolarWind(f.values[1], f.values[2], options)]
    /\ UNCHANGED <<config, now, calls, written, inserted, clearedSince, server>>

GetSummary(kpOutcome, xrayOutcome, plasmaOutcome, magOutcome) ==
    /\ \E f \in {fetchEndpoints(memoryCache,
                      <<"KP_INDEX", "XRAY_FLUX", "SOLAR_WIND_REALTIME", "SOLAR_WIND_MAG">>,
                      [e \in QueryEndpoints |->
                         CASE e = "KP_INDEX" -> kpOutcome
                           [] e = "XRAY_FLUX" -> xrayOutcome
                           [] e = "SOLAR_WIND_REALTIME" -> plasmaOutcome
                           [] OTHER -> magOutcome])} :
          \E xray \in {getXrayFlux(f.values[2], SummaryOptions)} :
             /\ memoryCache' = aliased(f.cache, cacheKey("XRAY_FLUX"), f.values[2], xray.data)
             /\ ret' = [op |-> "getSummary", fetches |-> f.values,
                        end |-> getSummary(getKpIndex(f.values[1], SummaryOptions),
                                           xray.end,
                                           getSolarWind(f.values[3], f.values[4],
                                                        SummaryOptions))]
    /\ UNCHANGED <<config, now, calls, written, inserted, clearedSince, server>>

QueryNext ==
    \/ \E options \in QueryOptions, outcome \in QueryOutcomes("XRAY_FLUX") :
          GetXrayFlux(options, outcome)
    \/ \E options \in QueryOptions, outcome \in QueryOutcomes("KP_INDEX") :
          GetKpIndex(options, outcome)
    \/ \E options \in QueryOptions,
          plasmaOutcome \in QueryOutcomes("SOLAR_WIND_REALTIME"),
          magOutcome \in QueryOutcomes("SOLAR_WIND_MAG") :
          GetSolarWind(options, plasmaOutcome, magOutcome)
    \/ \E kpOutcome \in QueryOutcomes("KP_INDEX"),
          xrayOutcome \in QueryOutcomes("XRAY_FLUX"),
          plasmaOutcome \in QueryOutcomes("SOLAR_WIND_REALTIME"),
          magOutcome \in QueryOutcomes("SOLAR_WIND_MAG") :
          GetSummary(kpOutcome, xrayOutcome, plasmaOutcome, magOutcome)
    \/ ClearCache

\* A NoaaClient whose queries run one after the other
QuerySpec == Init /\ [][QueryNext]_vars

----------------------------------------------------------------------------
(* Claims *)

\* The key of the fetchEndpoint call that the last step completed
retKey == cacheKey(ret.endpoint)

\* C1: for a CacheManager built with maxEntries = M >= 1, after any sequence
\* of set, get, getStale, invalidate and invalidateAll calls with any keys,
\* getStats().size <= M.
C1_CapacityBound == getStats(memoryCache, config).size <= config.maxEntries

\* C2 as stated: get(key) on a stored entry returns null whenever
\* now >= expiresAt and returns the entry whenever now < expiresAt.
C2_ExpiryPredicate ==
    [][ret'.op = "get" /\ MapHas(memoryCache, ret'.key) =>
        LET entry == MapGet(memoryCache, ret'.key) IN
        IF now >= entry.expiresAt THEN ret'.value = Null ELSE ret'.value = entry]_vars

\* C2 amended: get(key) on a stored entry returns null (and removes the
\* entry) whenever now > expiresAt and returns the entry whenever
\* now <= expiresAt: at now = expiresAt the entry is still served.
C2_ExpiryStrict ==
    [][ret'.op = "get" /\ MapHas(memoryCache, ret'.key) =>
        LET entry == MapGet(memoryCache, ret'.key) IN
        IF now > entry.expiresAt
        THEN ret'.value = Null /\ ~MapHas(memoryCache', ret'.key)
        ELSE ret'.value = entry /\ memoryCache' = memoryCache]_vars

\* C2 witness: a get at now = expiresAt has returned the entry.
C2_Witness ==
    /\ ret.op = "get"
    /\ ret.value /= Null
    /\ ret.value.expiresAt = now

\* C3: a fetchEndpoint call whose retrieval fails (non-2xx or exception),
\* for a key that was stored earlier and has not been invalidated or evicted
\* since, returns success = true with the previously cached data and a
\* non-empty error string.
C3_StaleFallback ==
    (/\ ret.op = "fetchEndpoint"
     /\ ret.path \in {"notOk", "catch"}
     /\ written[retKey] /= NoEntry)
    => /\ ret.end.kind = "return"
       /\ ret.end.value.success
       /\ ret.end.value.data = written[retKey].data
       /\ "error" \in DOMAIN ret.end.value
       /\ ret.end.value.error /= ""

\* C4 as stated: after set(k, v, ttl = t) and a wait of more than t seconds
\* (k not set again, not invalidated, not evicted), get(k) returns null and
\* getStale(k) returns the entry with data == v, also after that get(k).
C4_StaleAfterGet ==
    (/\ ret.op \in {"get", "getStale"}
     /\ written[ret.key] /= NoEntry
     /\ now > written[ret.key].expiresAt)
    => /\ ret.op = "get" => ret.value = Null
       /\ ret.op = "getStale" =>
            ret.value /= Null /\ ret.value.data = written[ret.key].data

\* C4 amended: after set(k, v, ttl = t) and a wait of more than t seconds
\* (k not set again, not invalidated, not evicted), get(k) returns null and
\* deletes the entry; getStale(k) returns the entry with data == v while the
\* entry is still stored, that is before that get(k), and null after it.
C4_StaleUntilGet ==
    (/\ ret.op \in {"get", "getStale"}
     /\ written[ret.key] /= NoEntry
     /\ now > written[ret.key].expiresAt)
    => /\ ret.op = "get" => ret.value = Null /\ ~MapHas(memoryCache, ret.key)
       /\ ret.op = "getStale" =>
            IF MapHas(memoryCache, ret.key)
            THEN ret.value /= Null /\ ret.value.data = written[ret.key].data
            ELSE ret.value = Null

\* C4 witness: getStale(k) has returned null for an entry that was written,
\* has expired and was deleted by a get(k).
C4_Witness ==
    /\ ret.op = "getStale"
    /\ written[ret.key] /= NoEntry
    /\ now > written[ret.key].expiresAt
    /\ ~MapHas(memoryCache, ret.key)
    /\ ret.value = Null

\* C5: set(k, v) followed immediately by get(k), before the TTL elapses,
\* returns a non-null entry whose data is v, in every store state; and so
\* does every later get(k) made before the TTL elapses while k has not been
\* set again, invalidated or evicted.
C5_RoundTrip ==
    /\ [][(/\ ret.op = "set"
           /\ ret'.op = "get"
           /\ ret'.key = ret.key
           /\ Nullish(ret.ttl, config.ttlSeconds) > 0)
          => /\ ret'.value /= Null
             /\ ret'.value.data = ret.data]_vars
    /\ []((/\ ret.op = "get"
           /\ written[ret.key] /= NoEntry
           /\ now < written[ret.key].expiresAt)
          => /\ ret.value /= Null
             /\ ret.value.data = written[ret.key].data)

\* C5 witness: get(k) has returned the entry written at this instant into a
\* store that holds maxEntries entries.
C5_Witness ==
    /\ ret.op = "get"
    /\ ret.value /= Null
    /\ ret.value.fetchedAt = now
    /\ now < ret.value.expiresAt
    /\ Len(memoryCache) >= config.maxEntries

\* C6: every fetchEndpoint call returns a result, whatever the retrieval
\* does: success = true with data, or success = false with a non-empty error
\* string; no exception leaves the call.
C6_NeverThrows ==
    ret.op = "fetchEndpoint" =>
        /\ ret.end.kind = "return"
        /\ LET r == ret.end.value IN
           \/ r.success /\ "data" \in DOMAIN r /\ r.data \in Payloads
           \/ ~r.success /\ "error" \in DOMAIN r /\ r.error /= ""

\* C6 witness: a call whose retrieval threw has returned a failure result.
C6_Witness ==
    /\ ret.op = "fetchEndpoint"
    /\ ret.path = "catch"
    /\ ret.end.kind = "return"
    /\ ~ret.end.value.success

\* C7: without forceRefresh, when get(key) returns a live entry,
\* fetchEndpoint returns success = true with the entry's data, source =
\* "cache", cachedAt = fetchedAt and no error, starts no retrieval and leaves
\* the store unchanged.
C7_CacheHit ==
    [][(/\ ret'.op \in {"fetchEndpoint", "await fetch"}
        /\ "forceRefresh" \in DOMAIN ret'
        /\ ~ret'.forceRefresh
        /\ MapHas(memoryCache, cacheKey(ret'.endpoint))
        /\ MapGet(memoryCache, cacheKey(ret'.endpoint)).expiresAt >= now)
       => LET entry == MapGet(memoryCache, cacheKey(ret'.endpoint)) IN
          /\ ret'.op = "fetchEndpoint"
          /\ ret'.end = Return([success |-> TRUE, data |-> entry.data,
                                cachedAt |-> entry.fetchedAt, source |-> "cache"])
          /\ calls' = calls
          /\ memoryCache' = memoryCache]_vars

\* C7 witness: a call has returned an entry fetched earlier from the cache.
C7_Witness ==
    /\ ret.op = "fetchEndpoint"
    /\ ret.path = "hit"
    /\ ret.end.value.cachedAt < now

\* C8: on a non-2xx response, a stored entry (live or expired) is returned
\* with success = true, source = "cache", cachedAt = fetchedAt and the
\* advisory error naming the status; with no stored entry the result is
\* success = false with the HTTP status code and reason as error.
C8_NotOk ==
    [][(ret'.op = "fetchEndpoint" /\ ret'.path = "notOk")
       => LET key == cacheKey(ret'.endpoint)
              status == ToString(ret'.response.status) IN
          /\ ~ret'.response.ok
          /\ IF MapHas(memoryCache, key)
             THEN ret'.end =
                    Return([success |-> TRUE,
                            data |-> MapGet(memoryCache, key).data,
                            cachedAt |-> MapGet(memoryCache, key).fetchedAt,
                            source |-> "cache",
                            error |-> "API returned " \o status \o ", using stale cache"])
             ELSE ret'.end =
                    Return([success |-> FALSE,
                            error |-> "HTTP " \o status \o ": " \o ret'.response.statusText,
                            source |-> "fetch"])]_vars

\* C8 witness: a non-2xx response has been answered with an expired entry.
C8_Witness ==
    /\ ret.op = "fetchEndpoint"
    /\ ret.path = "notOk"
    /\ ret.end.value.success
    /\ MapGet(memoryCache, retKey).expiresAt < now

\* C9: on an exception in the network call or the body decoding, a stored
\* entry (live or expired) is returned with success = true, source = "cache"
\* and an advisory error containing the exception message; with no stored
\* entry the result is success = false with the exception message as error;
\* the store is not written either way.
C9_Exception ==
    [][(ret'.op = "fetchEndpoint" /\ ret'.path = "catch")
       => LET key == cacheKey(ret'.endpoint) IN
          /\ memoryCache' = memoryCache
          /\ IF MapHas(memoryCache, key)
             THEN ret'.end =
                    Return([success |-> TRUE,
                            data |-> MapGet(memoryCache, key).data,
                            cachedAt |-> MapGet(memoryCache, key).fetchedAt,
                            source |-> "cache",
                            error |-> "Fetch failed: " \o ret'.error.message
                                      \o ", using stale cache"])
             ELSE ret'.end =
                    Return([success |-> FALSE, error |-> ret'.error.message,
                            source |-> "fetch"])]_vars

\* C9 witness: a body that did not decode has been answered with an expired
\* entry.
C9_Witness ==
    /\ ret.op = "fetchEndpoint"
    /\ ret.path = "catch"
    /\ ret.error \in JsonErrors
    /\ ret.end.value.success
    /\ MapGet(memoryCache, retKey).expiresAt < now

\* C10: a 2xx response whose body decodes is stored under the endpoint's key
\* with expiresAt - fetchedAt = ttl * 1000, ttl being options.ttl when given
\* (0 included) and the endpoint's table value otherwise, and the call
\* returns success = true, source = "fetch", the payload and no error.
C10_Fetched ==
    (ret.op = "fetchEndpoint" /\ ret.path = "fetched")
    => LET ttl == IF ret.ttl = <<>>
                  THEN getTtlForEndpoint(ret.endpoint)
                  ELSE ret.ttl[1] IN
       /\ MapHas(memoryCache, retKey)
       /\ MapGet(memoryCache, retKey).data = ret.payload
       /\ MapGet(memoryCache, retKey).fetchedAt = now
       /\ MapGet(memoryCache, retKey).expiresAt
            - MapGet(memoryCache, retKey).fetchedAt = ttl * 1000
       /\ ret.end = Return([success |-> TRUE, data |-> ret.payload,
                            cachedAt |-> now, source |-> "fetch"])

\* C10 witness: a payload has been stored with options.ttl = 0.
C10_Witness ==
    /\ ret.op = "fetchEndpoint"
    /\ ret.path = "fetched"
    /\ ret.ttl = <<0>>
    /\ MapGet(memoryCache, retKey).expiresAt = now

\* C11: with forceRefresh = true, fetchEndpoint never returns from the cache
\* but is suspended in the network retrieval, also when a live entry exists
\* for the key; a successful retrieval replaces the entry by the new payload
\* with fetchedAt = the time of the write.
C11_ForceRefresh ==
    /\ (ret.op = "fetchEndpoint" /\ ret.path = "hit") => ~ret.forceRefresh
    /\ (ret.op = "await fetch" /\ ret.forceRefresh)
         => /\ calls[ret.call].pc = "fetch"
            /\ calls[ret.call].endpoint = ret.endpoint
    /\ (ret.op = "fetchEndpoint" /\ ret.path = "fetched")
         => /\ MapGet(memoryCache, retKey).data = ret.payload
            /\ MapGet(memoryCache, retKey).fetchedAt = now

\* C11 witness: a call with forceRefresh = true is suspended in the
\* retrieval while a live entry is stored for its key.
C11_Witness ==
    /\ ret.op = "await fetch"
    /\ ret.forceRefresh
    /\ MapHas(memoryCache, retKey)
    /\ now < MapGet(memoryCache, retKey).expiresAt

\* C12: a fetchEndpoint call issues at most one network request, whatever
\* the request's outcome, and none when it returns from the cache.
C12_NoRetry ==
    /\ \A c \in Calls : calls[c].pc /= "idle" => calls[c].requests = 1
    /\ ret.op = "fetchEndpoint" =>
         ret.requests = IF ret.path = "hit" THEN 0 ELSE 1

\* C12 witness: a call whose request failed has returned a failure after
\* one request.
C12_Witness ==
    /\ ret.op = "fetchEndpoint"
    /\ ret.path \in {"notOk", "catch"}
    /\ ~ret.end.value.success
    /\ ret.requests = 1
    /\ calls[ret.call].pc = "idle"

\* The keys of the entries of m whose fetchedAt is minimal in m
oldestKeys(m) ==
    {j \in MapKeys(m) :
        \A i \in MapKeys(m) : MapGet(m, j).fetchedAt <= MapGet(m, i).fetchedAt}

\* C13: a set of a key that is not in the store, at size >= maxEntries,
\* removes one entry whose fetchedAt is minimal in the store before the call,
\* and every other entry present before is present and unchanged afterwards.
C13_EvictionCorrectness ==
    [][(/\ ret'.op = "set"
        /\ Len(memoryCache) >= config.maxEntries
        /\ ~MapHas(memoryCache, ret'.key))
       => \E j \in oldestKeys(memoryCache) :
             /\ ~MapHas(memoryCache', j)
             /\ \A i \in MapKeys(memoryCache) \ {j} :
                   /\ MapHas(memoryCache', i)
                   /\ MapGet(memoryCache', i) = MapGet(memoryCache, i)]_vars

\* The last n elements of the sequence s (all of s when it is shorter)
LastKeys(s, n) == {s[i] : i \in {i \in 1..Len(s) : i > Len(s) - n}}

\* C14: after distinct keys were set one after another at strictly
\* increasing times, starting from an empty store, the store holds exactly
\* the last maxEntries keys inserted (all of them while there are fewer).
C14_Fifo ==
    /\ MapKeys(memoryCache) = LastKeys(inserted, config.maxEntries)
    /\ Len(memoryCache) = Cardinality(LastKeys(inserted, config.maxEntries))

\* C15: set(k, v) of a key that is present while size = maxEntries removes
\* one entry with minimal fetchedAt (k itself or another key) and then
\* writes k.
C15_OverwriteAtCapacity ==
    [][(/\ ret'.op = "set"
        /\ Len(memoryCache) = config.maxEntries
        /\ MapHas(memoryCache, ret'.key))
       => \E j \in oldestKeys(memoryCache) :
             memoryCache' = MapSet(MapDelete(memoryCache, j), ret'.key,
                                   newEntry(config, ret'.data, ret'.ttl, now))]_vars

\* The first position of m, in iteration order, that holds an entry with
\* minimal fetchedAt
firstOldest(m) ==
    CHOOSE i \in 1..Len(m) :
        /\ m[i].key \in oldestKeys(m)
        /\ \A h \in 1..(i - 1) : m[h].key \notin oldestKeys(m)

\* C16: when several entries share the minimal fetchedAt, a set that evicts
\* removes the one that comes first in the iteration order of the store.
C16_TieBreak ==
    [][(/\ ret'.op = "set"
        /\ Len(memoryCache) >= config.maxEntries
        /\ Cardinality(oldestKeys(memoryCache)) > 1)
       => ~MapHas(MapDelete(memoryCache', ret'.key),
                  memoryCache[firstOldest(memoryCache)].key)]_vars

\* The keys present in m and absent from m2
removedKeys(m, m2) == {j \in MapKeys(m) : ~MapHas(m2, j)}

\* C17: one set removes at most one entry that was present before it, the
\* one its eviction selected, also when other entries are expired; the
\* other entries stay as they are and the size changes by -1, 0 or +1.
C17_AtMostOneEviction ==
    [][ret'.op = "set"
       => /\ Cardinality(ret'.evicted) <= 1
          /\ removedKeys(memoryCache, memoryCache') \subseteq ret'.evicted
          /\ \A j \in MapKeys(memoryCache) \ (ret'.evicted \cup {ret'.key}) :
                MapGet(memoryCache', j) = MapGet(memoryCache, j)
          /\ Len(memoryCache') - Len(memoryCache) \in {-1, 0, 1}]_vars

\* C17 witness: a set has evicted one entry and an entry that is expired is
\* still in the store.
C17_Witness ==
    /\ ret.op = "set"
    /\ Cardinality(ret.evicted) = 1
    /\ \E j \in MapKeys(memoryCache) \ {ret.key} : isExpired(MapGet(memoryCache, j), now)

\* C18: getStale(k) returns the entry stored under k, expired or not, and
\* null when k is not in the store; it leaves the store as it is.
C18_GetStalePure ==
    [][ret'.op = "getStale"
       => /\ memoryCache' = memoryCache
          /\ ret'.value = IF MapHas(memoryCache, ret'.key)
                          THEN MapGet(memoryCache, ret'.key)
                          ELSE Null]_vars

\* C18 witness: getStale has returned an entry that is expired, and the
\* entry is still in the store.
C18_Witness ==
    /\ ret.op = "getStale"
    /\ ret.value /= Null
    /\ ret.value.expiresAt < now
    /\ MapHas(memoryCache, ret.key)
    /\ MapGet(memoryCache, ret.key) = ret.value

\* C19: get(k) of a present, expired entry removes the entry of k and no
\* other (the size goes down by one) and returns null; get of a live or
\* absent key leaves the store as it is.
C19_LazyDeletion ==
    [][ret'.op = "get"
       => IF /\ MapHas(memoryCache, ret'.key)
             /\ MapGet(memoryCache, ret'.key).expiresAt < now
          THEN /\ ret'.value = Null
               /\ ~MapHas(memoryCache', ret'.key)
               /\ Len(memoryCache') = Len(memoryCache) - 1
               /\ \A j \in MapKeys(memoryCache) \ {ret'.key} :
                     MapGet(memoryCache', j) = MapGet(memoryCache, j)
          ELSE memoryCache' = memoryCache]_vars

\* C19 witness: get has returned null for a key whose expired entry was
\* deleted lazily, and another expired entry is still in the store.
C19_Witness ==
    /\ ret.op = "get"
    /\ ret.value = Null
    /\ written[ret.key] /= NoEntry
    /\ written[ret.key].expiresAt < now
    /\ ~MapHas(memoryCache, ret.key)
    /\ \E j \in MapKeys(memoryCache) : MapGet(memoryCache, j).expiresAt < now

\* C20: invalidate(k) returns true iff k was in the store; afterwards k is
\* absent, get(k) returns null, and every other entry is as before.
C20_Invalidate ==
    [][ret'.op = "invalidate"
       => /\ ret'.value = MapHas(memoryCache, ret'.key)
          /\ ~MapHas(memoryCache', ret'.key)
          /\ get(memoryCache', ret'.key, now).value = Null
          /\ MapKeys(memoryCache') = MapKeys(memoryCache) \ {ret'.key}
          /\ \A j \in MapKeys(memoryCache') :
                MapGet(memoryCache', j) = MapGet(memoryCache, j)]_vars

\* C20 witness: invalidate has returned true and other entries are still in
\* the store.
C20_Witness ==
    /\ ret.op = "invalidate"
    /\ ret.value = TRUE
    /\ ~MapHas(memoryCache, ret.key)
    /\ memoryCache /= <<>>

\* C21: from an invalidateAll until the next set (written holds no entry
\* exactly then, or when every key was removed one by one), getStats().size
\* is 0 and get(k) and getStale(k) return null for every key k.
C21_InvalidateAll ==
    (\A j \in AllKeys : written[j] = NoEntry)
       => /\ getStats(memoryCache, config).size = 0
          /\ \A k \in AllKeys :
                /\ get(memoryCache, k, now).value = Null
                /\ getStale(memoryCache, k) = Null

\* C21 witness: invalidateAll has cleared a store that held entries.
C21_Witness ==
    /\ ret.op = "invalidateAll"
    /\ ret.cleared > 0
    /\ memoryCache = <<>>
    /\ \A j \in AllKeys : written[j] = NoEntry

\* The entries of m that are not expired at time t
liveKeys(m, t) == {j \in MapKeys(m) : ~(MapGet(m, j).expiresAt < t)}

\* C22: getStats leaves the store as it is; its size is the number of
\* stored keys, expired ones included, and its maxEntries and ttlSeconds are
\* those of the configuration, which no operation changes.
C22_GetStats ==
    [][/\ config' = config
       /\ ret'.op = "getStats"
            => /\ memoryCache' = memoryCache
               /\ ret'.value.size = Cardinality(MapKeys(memoryCache))
               /\ ret'.value.maxEntries = config.maxEntries
               /\ ret'.value.ttlSeconds = config.ttlSeconds]_vars

\* C22 witness: getStats has counted an entry that is expired.
C22_Witness ==
    /\ ret.op = "getStats"
    /\ ret.value.size > Cardinality(liveKeys(memoryCache, now))
    /\ ret.value.size = Len(memoryCache)

\* C23: get and getStale change no fetchedAt and no expiresAt: every entry
\* that is in the store after the read is as it was before, in the same
\* order, so the entry that the next set would evict is the same as before
\* a read that returned an entry.
C23_NotLru ==
    [][ret'.op \in {"get", "getStale"}
       => /\ \A j \in MapKeys(memoryCache') :
                MapGet(memoryCache', j) = MapGet(memoryCache, j)
          /\ memoryCache' \in {memoryCache, MapDelete(memoryCache, ret'.key)}
          /\ ret'.value /= Null
               => /\ ret'.value = MapGet(memoryCache, ret'.key)
                  /\ evictOldest(memoryCache') = evictOldest(memoryCache)]_vars

\* C23 witness: in a full store of two entries written at different times,
\* get has returned the live entry that is the oldest, and that entry is
\* still the one to evict.
C23_Witness ==
    /\ ret.op = "get"
    /\ ret.value /= Null
    /\ Len(memoryCache) = 2
    /\ Len(memoryCache) >= config.maxEntries
    /\ oldestKeys(memoryCache) = {ret.key}
    /\ ~MapHas(evictOldest(memoryCache), ret.key)

\* The ttl in seconds of a set with this ttlOverride
ttlOfSet(ttlOverride) == IF ttlOverride = <<>> THEN config.ttlSeconds ELSE ttlOverride[1]

\* C24: the entry that a set has written has fetchedAt = the time of the
\* set and expiresAt = fetchedAt + ttl * 1000, with ttl the ttlOverride when
\* one was passed (0 included) and config.ttlSeconds otherwise; every stored
\* entry has expiresAt = fetchedAt + ttl * 1000 for one of these ttl values,
\* hence expiresAt >= fetchedAt.
C24_EntryTimestamps ==
    /\ ret.op = "set"
         => /\ MapGet(memoryCache, ret.key).fetchedAt = now
            /\ MapGet(memoryCache, ret.key).expiresAt = now + ttlOfSet(ret.ttl) * 1000
    /\ \A j \in MapKeys(memoryCache) :
          /\ \E ttlOverride \in TtlOverrides :
                MapGet(memoryCache, j).expiresAt =
                   MapGet(memoryCache, j).fetchedAt + ttlOfSet(ttlOverride) * 1000
          /\ MapGet(memoryCache, j).expiresAt >= MapGet(memoryCache, j).fetchedAt
          /\ MapGet(memoryCache, j).fetchedAt <= now

\* C24 witness: a set with ttlOverride 0, after time has passed, has written
\* an entry with expiresAt = fetchedAt = the time of the set.
C24_Witness ==
    /\ ret.op = "set"
    /\ ret.ttl = <<0>>
    /\ now > 0
    /\ MapGet(memoryCache, ret.key).fetchedAt = now
    /\ MapGet(memoryCache, ret.key).expiresAt = now

\* C25: get(k) of a key that is not in the store returns null and leaves
\* the store as it is.
C25_AbsentKey ==
    [][(ret'.op = "get" /\ ~MapHas(memoryCache, ret'.key))
       => /\ ret'.value = Null
          /\ memoryCache' = memoryCache]_vars

\* C25 witness: get has returned null for a key that holds no written entry
\* (never set, or removed by invalidate, invalidateAll or eviction) while the
\* store holds other entries.
C25_Witness ==
    /\ ret.op = "get"
    /\ ret.value = Null
    /\ written[ret.key] = NoEntry
    /\ ~MapHas(memoryCache, ret.key)
    /\ memoryCache /= <<>>

\* The calls that are suspended in the retrieval of this endpoint
inFlight(endpoint) ==
    {c \in Calls : calls[c].pc /= "idle" /\ calls[c].endpoint = endpoint}

\* C26: retrievals are not coalesced: a call that misses the cache issues a
\* request of its own also when another call is in flight for the same
\* endpoint, and each call stores its payload when its retrieval succeeds.
C26_NoSingleFlight ==
    /\ \A endpoint \in Endpoints :
          \A c \in inFlight(endpoint) :
             calls[c].requests = 1 /\ calls[c].pc \in {"fetch", "json"}
    /\ ret.op = "await fetch" => ret.call \in inFlight(ret.endpoint)
    /\ (ret.op = "fetchEndpoint" /\ ret.path = "fetched")
         => /\ written[retKey].data = ret.payload
            /\ written[retKey].fetchedAt = now

\* C26 witness: two calls are suspended in `await fetch` for one endpoint.
C26_Witness ==
    \E endpoint \in Endpoints :
       \E c, d \in inFlight(endpoint) :
          c /= d /\ calls[c].pc = "fetch" /\ calls[d].pc = "fetch"

\* C28: the first fetchEndpoint call that starts after a clearCache() does
\* not return from the cache, whatever its endpoint.
C28_ClearForcesFresh ==
    (ret.op = "fetchEndpoint" /\ ret.path = "hit") => ~ret.afterClear

\* C27: within one server process every handler runs on the same
\* CacheManager instance, so the statistics count the entries that the
\* requests served before have left in the cache.
C27_SharedCache ==
    /\ Cardinality(server.used) <= 1
    /\ (ret.op = "tool" /\ ret.tool \in {"get_cache_stats", "/stats"})
         => ret.value.size = Len(server.last)

\* C29: without a ttl option an endpoint is cached for 60 s (XRAY_FLUX,
\* PROTON_FLUX, SOLAR_WIND_REALTIME, SOLAR_WIND_MAG, ALERTS), 180 s
\* (KP_INDEX), 3600 s (FORECAST_27DAY, PREDICTED_SFI), 86400 s
\* (SUNSPOT_NUMBER), and 180 s for every other endpoint key.
C29_TtlTable ==
    (ret.op = "ttlFor" /\ ret.ttl = <<>>)
       => /\ ret.value =
               CASE ret.endpoint \in {"XRAY_FLUX", "PROTON_FLUX", "SOLAR_WIND_REALTIME",
                                      "SOLAR_WIND_MAG", "ALERTS"} -> 60
                 [] ret.endpoint = "KP_INDEX" -> 180
                 [] ret.endpoint \in {"FORECAST_27DAY", "PREDICTED_SFI"} -> 3600
                 [] ret.endpoint = "SUNSPOT_NUMBER" -> 86400
                 [] OTHER -> 180
          /\ ret.entry.expiresAt - ret.entry.fetchedAt = ret.value * 1000

\* C29 witness: an endpoint key outside the table got the medium TTL.
C29_Witness ==
    /\ ret.op = "ttlFor"
    /\ ret.ttl = <<>>
    /\ ret.endpoint \in {"DST_INDEX", "AURORA_FORECAST"}
    /\ ret.value = 180

\* C30: for the integer Kp values 0..9, interpretKp gives Quiet for 0-2,
\* Unsettled for 3-4, a storm level from 5 on, and Extreme for 9.
C30_KpInterpretation ==
    (ret.op = "interpretKp" /\ \E n \in 0..9 : ret.kp = Tenths(n))
       => LET n == CHOOSE n \in 0..9 : ret.kp = Tenths(n) IN
          /\ n <= 2 => ret.value.level = "Quiet"
          /\ n \in 3..4 => ret.value.level = "Unsettled"
          /\ n >= 5 => ret.value.level \in
                          {"Minor Storm (G1)", "Moderate Storm (G2)", "Strong Storm (G3)",
                           "Severe Storm (G4)", "Extreme Storm (G5)"}
          /\ n = 9 => ret.value.level = "Extreme Storm (G5)"

\* C31: a key enters the store only by a set of that key; it leaves only by
\* a get of that key whose entry is expired, an invalidate of that key, an
\* invalidateAll, or the eviction of a set; an entry changes only by being
\* replaced as a whole in a set of its key; a step of the clock leaves the
\* store as it is.
C31_Lifecycle ==
    [][/\ \A j \in MapKeys(memoryCache') \ MapKeys(memoryCache) :
             ret'.op = "set" /\ ret'.key = j
       /\ \A j \in MapKeys(memoryCache) \ MapKeys(memoryCache') :
             \/ /\ ret'.op = "get" /\ ret'.key = j
                /\ MapGet(memoryCache, j).expiresAt < now
             \/ ret'.op = "invalidate" /\ ret'.key = j
             \/ ret'.op = "invalidateAll"
             \/ ret'.op = "set" /\ j \in ret'.evicted
       /\ \A j \in MapKeys(memoryCache) \cap MapKeys(memoryCache') :
             MapGet(memoryCache', j) /= MapGet(memoryCache, j)
                => /\ ret'.op = "set" /\ ret'.key = j
                   /\ MapGet(memoryCache', j) =
                         [data |-> ret'.data, fetchedAt |-> now,
                          expiresAt |-> now + ttlOfSet(ret'.ttl) * 1000]
       /\ ret'.op = "tick" => memoryCache' = memoryCache]_vars

\* C31 witness: after time has passed, a set has replaced the entry of a
\* key that was present (the key has kept its place before another key).
C31_Witness ==
    /\ ret.op = "set"
    /\ now > 0
    /\ Len(memoryCache) >= 2
    /\ memoryCache[1].key = ret.key
    /\ memoryCache[1].entry.fetchedAt = now
    /\ memoryCache[2].entry.fetchedAt < now

\* C36: the entry that a set evicts is as old as or older than every entry
\* that stays, whether or not it is expired and whether or not they are.
C36_EvictionIgnoresExpiry ==
    ret.op = "set"
       => \A e \in ret.evictedEntries :
             \A j \in MapKeys(memoryCache) \ {ret.key} :
                e.fetchedAt <= MapGet(memoryCache, j).fetchedAt

\* C36 witness: a set has evicted an entry that was live, and a newer entry
\* that is expired is still in the store and counts in its size.
C36_Witness ==
    /\ ret.op = "set"
    /\ \E e \in ret.evictedEntries :
          /\ ~(e.expiresAt < now)
          /\ \E j \in MapKeys(memoryCache) \ {ret.key} :
                /\ MapGet(memoryCache, j).expiresAt < now
                /\ MapGet(memoryCache, j).fetchedAt > e.fetchedAt
    /\ getStats(memoryCache, config).size = config.maxEntries

\* C40: evictOldest removes one entry from every store that is not empty,
\* so a set of a new key into a store of maxEntries entries leaves
\* maxEntries entries.
C40_EvictOldestRemovesOne ==
    memoryCache /= <<>>
       => /\ Len(evictOldest(memoryCache)) = Len(memoryCache) - 1
          /\ Len(memoryCache) = config.maxEntries
               => \A k \in Keys \ MapKeys(memoryCache) :
                     Len(set(memoryCache, config, k, "d1", <<>>, now)) = config.maxEntries

\* C34: a result with success = true and no error string is the payload
\* just retrieved (source "fetch") or the data of an entry that was not
\* expired when it was read (source "cache"); the data of an expired entry
\* comes with a non-empty error string.
C34_NoSilentStaleness ==
    (ret.op = "fetchEndpoint" /\ ret.end.kind = "return" /\ ret.end.value.success)
       => LET v == ret.end.value IN
          /\ "error" \notin DOMAIN v
               => \/ /\ v.source = "fetch"
                     /\ ret.path = "fetched"
                     /\ v.data = ret.payload
                  \/ /\ v.source = "cache"
                     /\ ret.path = "hit"
                     /\ MapHas(memoryCache, retKey)
                     /\ MapGet(memoryCache, retKey).data = v.data
                     /\ ~(MapGet(memoryCache, retKey).expiresAt < now)
          /\ (/\ v.source = "cache"
              /\ MapHas(memoryCache, retKey)
              /\ MapGet(memoryCache, retKey).expiresAt < now)
               => "error" \in DOMAIN v /\ v.error /= ""

\* C34 witness: after time has passed, a call has returned the data of a
\* live entry from the cache, without error string.
C34_Witness ==
    /\ ret.op = "fetchEndpoint"
    /\ ret.path = "hit"
    /\ "error" \notin DOMAIN ret.end.value
    /\ MapGet(memoryCache, retKey).fetchedAt < now
    /\ MapGet(memoryCache, retKey).expiresAt >= now

\* C35: the step in which a call ends after a non-2xx response or an
\* exception leaves the store as it is; the step in which a call starts its
\* retrieval changes the store at most by deleting the expired entry of its
\* own key, and not at all with forceRefresh.
C35_FailedFetchWritesNothing ==
    [][/\ (ret'.op = "fetchEndpoint" /\ ret'.path \in {"notOk", "catch"})
            => memoryCache' = memoryCache
       /\ ret'.op = "await fetch"
            => LET key == cacheKey(ret'.endpoint) IN
               IF ~ret'.forceRefresh /\ MapHas(memoryCache, key)
               THEN /\ MapGet(memoryCache, key).expiresAt < now
                    /\ memoryCache' = MapDelete(memoryCache, key)
               ELSE memoryCache' = memoryCache]_vars

\* C35 witness: a call has failed after its first step deleted the expired
\* entry of its key, and the entry of another key is still in the store.
C35_Witness ==
    /\ ret.op = "fetchEndpoint"
    /\ ret.path \in {"notOk", "catch"}
    /\ ~ret.end.value.success
    /\ written[retKey] /= NoEntry
    /\ ~MapHas(memoryCache, retKey)
    /\ memoryCache /= <<>>

\* C37: a non-2xx response ends in the advisory "API returned <status>,
\* using stale cache" when the key has an entry, and in a failure with the
\* HTTP error when it has none; it never ends in the advisory of the catch
\* block.
C37_NotOkOnce ==
    (ret.op = "fetchEndpoint" /\ ret.path = "notOk")
       => LET v == ret.end.value
              http == "HTTP " \o ToString(ret.response.status) \o ": "
                      \o ret.response.statusText IN
          /\ ret.end.kind = "return"
          /\ v.success = MapHas(memoryCache, retKey)
          /\ v.error = IF v.success
                       THEN "API returned " \o ToString(ret.response.status)
                            \o ", using stale cache"
                       ELSE http
          /\ v.error /= "Fetch failed: " \o http \o ", using stale cache"

\* C37 witness: a 404 for a key without entry has ended in a failure with
\* the HTTP error.
C37_Witness ==
    /\ ret.op = "fetchEndpoint"
    /\ ret.path = "notOk"
    /\ ~MapHas(memoryCache, retKey)
    /\ ret.end = Return([success |-> FALSE, error |-> "HTTP 404: Not Found",
                         source |-> "fetch"])

\* C33: the payload that a successful retrieval stores is the entry of its
\* key from then on, with fetchedAt at the completion, also when the call
\* found no entry at its start and another call has stored one during its
\* suspension; a call still suspended for the same endpoint does not prevent
\* the write, and its own completion overwrites it in turn.
C33_LastCompletionWins ==
    (ret.op = "fetchEndpoint" /\ ret.path = "fetched")
       => /\ MapGet(memoryCache, retKey)
               = newEntry(config, ret.payload, <<ttlFor(ret.ttl, ret.endpoint)>>, now)
          /\ (ret.call = "c1" /\ ret.replaced /= Undefined)
               => MapGet(memoryCache, retKey).fetchedAt >= ret.replaced.fetchedAt

\* C33 witness: c1, which started first and found no entry, completes one
\* second after c2 has stored another payload, and c1's payload is the entry.
C33_Witness ==
    /\ ret.op = "fetchEndpoint"
    /\ ret.path = "fetched"
    /\ ret.call = "c1"
    /\ calls["c2"].pc = "idle"
    /\ ret.replaced /= Undefined
    /\ ret.replaced.data /= ret.payload
    /\ ret.replaced.fetchedAt < now
    /\ MapGet(memoryCache, retKey).data = ret.payload
    /\ MapGet(memoryCache, retKey).fetchedAt = now

\* C32: when its retrieval responds, a suspended fetchEndpoint call returns;
\* it leaves its suspension by no other step than a response of its own
\* retrieval (the passing of time does not end it); and while it is suspended
\* the cache operations, the other call's start and the other call's response
\* remain possible.
C32_Termination ==
    /\ \A c \in Calls : (calls[c].pc = "fetch") ~> (calls[c].pc = "idle")
    /\ [][\A c \in Calls :
             (calls[c].pc = "fetch" /\ calls'[c].pc /= "fetch")
                => /\ ret'.op \in {"await json", "fetchEndpoint"}
                   /\ ret'.call = c
                   /\ now' = now]_vars
    /\ [](\A c \in Calls :
             calls[c].pc = "fetch"
                => /\ ENABLED GetCacheStats
                   /\ ENABLED ClearCache
                   /\ \A d \in Calls \ {c} :
                         IF calls[d].pc = "idle"
                         THEN \A endpoint \in Endpoints :
                                 ENABLED FetchEndpoint(d, endpoint, TRUE, <<>>)
                         ELSE ENABLED Responds(d))

\* C32 witness: after a second, one call has returned with the payload it
\* fetched while the other call is still suspended in `await fetch`.
C32_Witness ==
    /\ ret.op = "fetchEndpoint"
    /\ ret.path = "fetched"
    /\ now > 0
    /\ \E d \in Calls \ {ret.call} : calls[d].pc = "fetch"

\* The operations that apply queryData
QueryOps == {"getXrayFlux", "getKpIndex", "getSolarWind", "getSummary"}

\* C38: a query leaves every entry that stays in the store as it was, an
\* entry that it adds holds the payload as the network delivered it, and
\* getXrayFlux without options served from the cache returns the data of the
\* stored entry.
C38_QueriesKeepPayloads ==
    [][ret'.op \in QueryOps
          => /\ \A key \in MapKeys(memoryCache) \cap MapKeys(memoryCache') :
                   MapGet(memoryCache', key) = MapGet(memoryCache, key)
             /\ \A key \in MapKeys(memoryCache') \ MapKeys(memoryCache) :
                   \E endpoint \in QueryEndpoints :
                      /\ key = cacheKey(endpoint)
                      /\ MapGet(memoryCache', key).data \in JsonPayloads(endpoint)
             /\ (/\ ret'.op = "getXrayFlux"
                 /\ ret'.options = <<>>
                 /\ MapHas(memoryCache, cacheKey("XRAY_FLUX")))
                   => ret'.end = Return(cacheHit(MapGet(memoryCache, cacheKey("XRAY_FLUX"))))
       ]_vars

\* C38 witness: getXrayFlux sorted by time_tag has been served from the
\* cache, and the stored payload still has its four rows in their order.
C38_Witness ==
    /\ ret.op = "getXrayFlux"
    /\ ret.options = <<[sortBy |-> "time_tag", sortOrder |-> "asc"]>>
    /\ ret.fetches[1].source = "cache"
    /\ ret.end.kind = "return"
    /\ ret.end.value.success
    /\ HasData(ret.fetches[1])
    /\ ret.fetches[1].data.json = "array"
    /\ Len(ret.end.value.data.items) = 4
    /\ ret.end.value.data.items[1].time_tag = 0
    /\ MapGet(memoryCache, cacheKey("XRAY_FLUX")).data = ret.fetches[1].data
    /\ Len(ret.fetches[1].data.items) = 4
    /\ ret.fetches[1].data.items[1].time_tag = 2

\* C39: getSummary returns success = true with source "fetch" whatever the
\* outcomes of its fetches, and each of latestKp, latestXray and
\* latestSolarWind is null exactly when its fetch failed or delivered no rows.
C39_SummaryAlwaysSucceeds ==
    ret.op = "getSummary"
       => /\ ret.end.kind = "return"
          /\ ret.end.value.success
          /\ ret.end.value.source = "fetch"
          /\ ret.end.value.data.latestKp = Null
               <=> \/ ~ret.fetches[1].success
                   \/ ~HasData(ret.fetches[1])
                   \/ rowsOf(ret.fetches[1].data) = <<>>
          /\ ret.end.value.data.latestXray = Null
               <=> \/ ~ret.fetches[2].success
                   \/ ~HasData(ret.fetches[2])
                   \/ ret.fetches[2].data.items = <<>>
          /\ ret.end.value.data.latestSolarWind = Null
               <=> \/ ~ret.fetches[3].success
                   \/ ~ret.fetches[4].success
                   \/ ~HasData(ret.fetches[3])
                   \/ ~HasData(ret.fetches[4])
                   \/ rowsOf(ret.fetches[3].data) = <<>>

====
